---------------------------- MODULE Spec2Model ----------------------------
(***************************************************************************)
(* A model of dnslib's geo resolvers:                                      *)
(*   - GeoInterceptResolver (src/dnslib/geointerceptresolver.py): a DNS    *)
(*     proxy that rewrites MX answers to a gateway chosen by the location  *)
(*     of the mail host, with a redis cache of the rewritten record;       *)
(*   - GeoZoneResolver (src/dnslib/geozoneresolver.py): a resolver that    *)
(*     picks one of several zone tables by the location of the client.     *)
(*                                                                         *)
(* Text is modelled as a sequence of one-character strings, so that        *)
(* str.split, int() and the "%s" formatting are computed as Python         *)
(* computes them.                                                          *)
(***************************************************************************)
EXTENDS Integers, Sequences, FiniteSets, TLC

(***************************************************************************)
(* Python text primitives                                                  *)
(***************************************************************************)
Digits == <<"0", "1", "2", "3", "4", "5", "6", "7", "8", "9">>

IsDigit(c) == \E i \in 1..10 : Digits[i] = c

DigitVal(c) == (CHOOSE i \in 1..10 : Digits[i] = c) - 1

IsSpace(c) == c \in {" ", "\t", "\n"}

\* str.split(sep, maxsplit) for a one-character sep; maxsplit < 0: no limit.
RECURSIVE SplitAcc(_, _, _, _)
SplitAcc(s, sep, max, cur) ==
    IF s = << >> THEN << cur >>
    ELSE IF Head(s) = sep /\ max # 0
         THEN << cur >> \o SplitAcc(Tail(s), sep, max - 1, << >>)
         ELSE SplitAcc(Tail(s), sep, max, Append(cur, Head(s)))

SplitMax(s, sep, max) == SplitAcc(s, sep, max, << >>)

Split(s, sep) == SplitAcc(s, sep, -1, << >>)

\* str.split() with no argument: runs of whitespace separate, no empty piece.
RECURSIVE SplitWsAcc(_, _)
SplitWsAcc(s, cur) ==
    IF s = << >> THEN (IF cur = << >> THEN << >> ELSE << cur >>)
    ELSE IF IsSpace(Head(s))
         THEN (IF cur = << >> THEN << >> ELSE << cur >>) \o SplitWsAcc(Tail(s), << >>)
         ELSE SplitWsAcc(Tail(s), Append(cur, Head(s)))

SplitWs(s) == SplitWsAcc(s, << >>)

\* sep.join(parts)
RECURSIVE Join(_, _)
Join(parts, sep) ==
    IF parts = << >> THEN << >>
    ELSE IF Len(parts) = 1 THEN parts[1]
    ELSE parts[1] \o sep \o Join(Tail(parts), sep)

RECURSIVE StripLeft(_)
StripLeft(s) == IF s # << >> /\ IsSpace(Head(s)) THEN StripLeft(Tail(s)) ELSE s

RECURSIVE StripRight(_)
StripRight(s) ==
    IF s # << >> /\ IsSpace(s[Len(s)]) THEN StripRight(SubSeq(s, 1, Len(s) - 1)) ELSE s

Strip(s) == StripRight(StripLeft(s))

Unsigned(s) == IF s # << >> /\ Head(s) \in {"+", "-"} THEN Tail(s) ELSE s

\* int(s) succeeds: optional blanks, an optional sign, one or more digits.
IsIntLiteral(s) ==
    LET body == Unsigned(Strip(s))
    IN  body # << >> /\ \A i \in 1..Len(body) : IsDigit(body[i])

RECURSIVE DigitsVal(_, _)
DigitsVal(s, acc) ==
    IF s = << >> THEN acc ELSE DigitsVal(Tail(s), 10 * acc + DigitVal(Head(s)))

\* int(s), for a text IsIntLiteral accepts.
IntVal(s) ==
    LET t == Strip(s)
        v == DigitsVal(Unsigned(t), 0)
    IN  IF Head(t) = "-" THEN 0 - v ELSE v

\* "%s" % n for a natural number n.
RECURSIVE IntStr(_)
IntStr(n) == IF n < 10 THEN << Digits[n + 1] >> ELSE IntStr(n \div 10) \o << Digits[(n % 10) + 1] >>

LowerCase ==
    <<"a", "b", "c", "d", "e", "f", "g", "h", "i", "j", "k", "l", "m",
      "n", "o", "p", "q", "r", "s", "t", "u", "v", "w", "x", "y", "z">>

UpperCase ==
    <<"A", "B", "C", "D", "E", "F", "G", "H", "I", "J", "K", "L", "M",
      "N", "O", "P", "Q", "R", "S", "T", "U", "V", "W", "X", "Y", "Z">>

Upper(c) ==
    IF \E i \in 1..26 : LowerCase[i] = c
    THEN UpperCase[CHOOSE i \in 1..26 : LowerCase[i] = c]
    ELSE c

Lower(c) ==
    IF \E i \in 1..26 : UpperCase[i] = c
    THEN LowerCase[CHOOSE i \in 1..26 : UpperCase[i] = c]
    ELSE c

StrUpper(s) == [i \in 1..Len(s) |-> Upper(s[i])]

StrLower(s) == [i \in 1..Len(s) |-> Lower(s[i])]

\* fnmatch.fnmatchcase(s, pat) for patterns made of literals, '*' and '?'.
RECURSIVE GlobMatch(_, _)
GlobMatch(s, pat) ==
    IF pat = << >> THEN s = << >>
    ELSE IF Head(pat) = "*"
         THEN GlobMatch(s, Tail(pat)) \/ (s # << >> /\ GlobMatch(Tail(s), pat))
         ELSE s # << >> /\ (Head(pat) = "?" \/ Head(pat) = Head(s))
              /\ GlobMatch(Tail(s), Tail(pat))


(***************************************************************************)
(* Names, records and replies                                              *)
(***************************************************************************)
\* Query names as str(qname) prints them.
NameMEx == <<"m", ".", "e", "x", ".">>

NameMExUpper == <<"M", ".", "e", "x", ".">>

NameACn == <<"a", ".", "c", "n", ".">>

QNames == {NameMEx, NameMExUpper, NameACn}

\* Hosts and addresses that upstream answers may carry.
HostMx == <<"m", "x", ".", "e", "x", ".">>

HostAlias == <<"c", ".", "e", "x", ".">>

Ip1234 == <<"1", ".", "2", ".", "3", ".", "4">>

Ip9999 == <<"9", ".", "9", ".", "9", ".", "9">>

CN == <<"C", "N">>

US == <<"U", "S">>

\* --skip: the configured list of globs.
Skip == << <<"*", ".", "c", "n", ".">> >>

MaxTtl == 1

TTLs == 0..MaxTtl

\* dnslib's bimaps QTYPE, CLASS and RCODE: number <-> mnemonic.
QTYPE(n) ==
    CASE n = 1 -> <<"A">>
      [] n = 5 -> <<"C", "N", "A", "M", "E">>
      [] n = 15 -> <<"M", "X">>

QTYPENum(s) == CHOOSE n \in {1, 5, 15} : QTYPE(n) = s

CLASS(n) == CASE n = 1 -> <<"I", "N">>

CLASSNum(s) == CHOOSE n \in {1} : CLASS(n) = s

RCODE(n) ==
    CASE n = 0 -> "NOERROR"
      [] n = 2 -> "SERVFAIL"
      [] n = 3 -> "NXDOMAIN"

RCODENum(s) == CHOOSE n \in {0, 2, 3} : RCODE(n) = s

\* An optional value is a sequence: << >> for None, << v >> for v.
None == << >>

Some(v) == << v >>

RRof(name, ttl, rtype, rdata) ==
    [rname |-> name, ttl |-> ttl, rclass |-> 1, rtype |-> rtype, rdata |-> rdata]

\* RR(): the record dnslib builds with no arguments; str(None) is 'None'.
DefaultRR == RRof(<<".">>, 0, 1, <<"N", "o", "n", "e">>)

Question(qname, qtype) == [qname |-> qname, qtype |-> qtype]

\* request.reply(): a fresh answer to the question, with no records.
EmptyReply(q) == [q |-> q, rcode |-> RCODENum("NOERROR"), rr |-> << >>]

AddAnswer(reply, rr) == [reply EXCEPT !.rr = Append(@, rr)]

(***************************************************************************)
(* GeoInterceptResolver: the pure helpers                                  *)
(***************************************************************************)
DEFAULT_LOCATION == CN

DEFAULT_OVERSEA_OUTBOUND_GATEWAY ==
    <<"1", "7", "2", ".", "2", "1", ".", "1", "7", "5", ".", "2", "4", "5">>

CN_OVERSEA_OUTBOUND_GATEWAY ==
    <<"1", "9", "2", ".", "1", "6", "8", ".", "2", "0", "0", ".", "1", "3", "3">>

\* qname.matchGlob(s): fnmatch of the lower-cased texts.
MatchGlob(qname, s) == GlobMatch(StrLower(qname), StrLower(s))

Skipped(qname) == \E i \in 1..Len(Skip) : MatchGlob(qname, Skip[i])

ParseRdata(rdata) ==
    LET tokens == Split(rdata, " ")
    IN  IF Len(tokens) = 2
        THEN [pref |-> tokens[1], host |-> tokens[2]]
        ELSE [pref |-> << >>, host |-> tokens[1]]

IsNoerror(reply) == reply.rcode = RCODENum("NOERROR")

IsIpaddress(s) ==
    LET o == SplitMax(s, ".", 3)
    IN  \A i \in 1..Len(o) :
            IsIntLiteral(o[i]) /\ 0 <= IntVal(o[i]) /\ IntVal(o[i]) <= 255

\* Mutant: the key leaves the name out.
CacheKeyNameless(location, qname) == <<"m", "x", ":">> \o location \o <<":">>

\* 'mx:%s:%s' % (location, qname)
CacheKey(location, qname) == <<"m", "x", ":">> \o location \o <<":">> \o qname

\* pickle.dumps / pickle.loads of a record: its fields, in order.
Pickle(rr) == <<rr.rname, rr.ttl, rr.rclass, rr.rtype, rr.rdata>>

\* Mutant: the record comes back with its ttl at zero.
UnpickleTtlZero(val) ==
    [rname |-> val[1], ttl |-> 0, rclass |-> val[3], rtype |-> val[4],
     rdata |-> val[5]]

Unpickle(val) ==
    [rname |-> val[1], ttl |-> val[2], rclass |-> val[3], rtype |-> val[4],
     rdata |-> val[5]]

\* Mutant: the rewritten record keeps the owner name of the upstream answer.
FormatZoneAnswerName(qname, a, pref, gw) ==
    Join(<<a.rname, IntStr(a.ttl), CLASS(a.rclass), QTYPE(a.rtype), pref, gw>>, <<"\t">>)

\* "%s\t%s\t%s\t%s\t%s\t%s" % (qname, a.ttl, CLASS[a.rclass], QTYPE[a.rtype], pref, gw)
FormatZone(qname, a, pref, gw) ==
    Join(<<qname, IntStr(a.ttl), CLASS(a.rclass), QTYPE(a.rtype), pref, gw>>, <<"\t">>)

\* RR.fromZone(zone)[0]: name, ttl, class, type, then the rdata tokens.
FromZone(zone) ==
    LET t == SplitWs(zone)
    IN  [rname |-> t[1], ttl |-> IntVal(t[2]), rclass |-> CLASSNum(t[3]),
         rtype |-> QTYPENum(t[4]), rdata |-> Join(SubSeq(t, 5, Len(t)), <<" ">>)]

\* What georeader.get accepts as an address: four decimal parts of 0..255.
IsDottedQuad(s) ==
    LET o == Split(s, ".")
    IN  /\ Len(o) = 4
        /\ \A i \in 1..4 : /\ o[i] # << >>
                           /\ \A j \in 1..Len(o[i]) : IsDigit(o[i][j])
                           /\ IntVal(o[i]) <= 255

\* Mutant: a failed lookup counts as a location abroad.
LocationFromClientAbroad(geo) ==
    IF geo.kind = "found" THEN geo.code ELSE US

\* _location_from_client: res['country']['iso_code'], and DEFAULT_LOCATION on
\* any exception.
LocationFromClient(geo) ==
    IF geo.kind = "found" THEN geo.code ELSE DEFAULT_LOCATION

Gateway(loc) ==
    IF loc = CN THEN CN_OVERSEA_OUTBOUND_GATEWAY ELSE DEFAULT_OVERSEA_OUTBOUND_GATEWAY


DEFAULT_TIMEOUT == 5

(***************************************************************************)
(* The environment: the upstream server, the geolocation database          *)
(***************************************************************************)
MxRdata(pref, host) == pref \o <<" ">> \o host

Reply(q, rcode, rr) == [q |-> q, rcode |-> RCODENum(rcode), rr |-> rr]

Shape(kind, ttl) == [kind |-> kind, ttl |-> ttl]

\* What may come back for a forwarded question: no answer at all, a transport
\* error, an error status, or NOERROR with zero, one or two records.
ForwardShapes ==
    {Shape(k, 0) : k \in {"silent", "error", "nxdomain", "servfail", "empty"}}
        \cup {Shape(k, t) : k \in {"host", "ip"}, t \in TTLs}

\* The answers tried for a request that is passed through.
PassShapes(q) ==
    {Shape(k, 0) : k \in {"silent", "error", "nxdomain"}}
        \cup {Shape(IF q.qtype = 15 THEN "host" ELSE "a", MaxTtl)}

SecondaryShapes ==
    {Shape(k, 1) : k \in {"silent", "error", "nxdomain", "empty", "a", "cname"}}

UpstreamReply(q, shape) ==
    CASE shape.kind = "nxdomain" -> Reply(q, "NXDOMAIN", << >>)
      [] shape.kind = "servfail" -> Reply(q, "SERVFAIL", << >>)
      [] shape.kind = "empty" -> Reply(q, "NOERROR", << >>)
      [] shape.kind = "a" ->
            Reply(q, "NOERROR", << RRof(q.qname, shape.ttl, 1, Ip9999) >>)
      [] shape.kind = "cname" ->
            Reply(q, "NOERROR", << RRof(q.qname, shape.ttl, 5, HostAlias),
                                   RRof(HostAlias, shape.ttl, q.qtype,
                                        IF q.qtype = 15
                                        THEN MxRdata(<<"1", "0">>, HostMx)
                                        ELSE Ip9999) >>)
      [] shape.kind = "host" ->
            Reply(q, "NOERROR",
                  << RRof(q.qname, shape.ttl, 15, MxRdata(<<"1", "0">>, HostMx)) >>)
      [] shape.kind = "ip" ->
            \* a server that answers with the owner name in lower case
            Reply(q, "NOERROR",
                  << RRof(StrLower(q.qname), shape.ttl, 15, MxRdata(<<"1", "0">>, Ip1234)),
                     RRof(StrLower(q.qname), shape.ttl, 15, MxRdata(<<"2", "0">>, HostMx)) >>)

\* q.send(address, port, tcp, timeout) and DNSRecord.parse: the parsed reply;
\* socket.error on a transport error; with no answer, socket.timeout when a
\* timeout is set, and otherwise the call never returns.
Send(q, shape, timeout) ==
    CASE shape.kind = "error" -> [kind |-> "raise", error |-> "socket.error", reply |-> None]
      [] shape.kind = "silent" ->
            IF timeout # None
            THEN [kind |-> "raise", error |-> "socket.timeout", reply |-> None]
            ELSE [kind |-> "block", error |-> "", reply |-> None]
      [] OTHER -> [kind |-> "reply", error |-> "", reply |-> Some(UpstreamReply(q, shape))]

\* georeader.get(ip) for the database answer db ("CN", "US" or "none").
GeoGet(host, db) ==
    IF ~IsDottedQuad(host) THEN [kind |-> "raise"]
    ELSE IF db = "CN" THEN [kind |-> "found", code |-> CN]
    ELSE IF db = "US" THEN [kind |-> "found", code |-> US]
    ELSE [kind |-> "none"]

GeoAnswers == {"CN", "US", "none"}

(***************************************************************************)
(* State                                                                   *)
(***************************************************************************)
\* The two servers of __main__ share one resolver; each handles one request at
\* a time here.
Handlers == {"udp", "tcp"}

Keys == {CacheKey(<< >>, n) : n \in QNames}

VARIABLES
    pc,          \* pc[h]: "idle", "upstream" (after a cache miss) or "blocked"
    inflight,    \* inflight[h]: the record of the request h is handling
    cache,       \* redis: key -> None or Some([val, left]); left = 0: no expiry
    last,        \* the latest request, once it has finished or blocked for good
    getAEmpty,   \* DNSRecord.get_a on a reply with no records, by dnslib build
    env,         \* the upstream and database answers, where they are held fixed
    zonedir,     \* GeoZoneResolver: listdir(zonedir), in the order it lists
    zones,       \* GeoZoneResolver.zones: location -> the zone file of its table
    zlast        \* GeoZoneResolver: the latest request

vars == <<pc, inflight, cache, last, getAEmpty, env, zonedir, zones, zlast>>

ivars == <<pc, inflight, cache, last, getAEmpty, env>>

zvars == <<zonedir, zones, zlast>>

NoResult == [kind |-> "none", reply |-> None, error |-> ""]

Returned(reply) == [kind |-> "reply", reply |-> Some(reply), error |-> ""]

Raised(error) == [kind |-> "raise", reply |-> None, error |-> error]

Blocked == [kind |-> "block", reply |-> None, error |-> ""]

\* What one request did: the calls it made on its collaborators, in order.
NewRec(h, q) ==
    [q |-> q, protocol |-> h, route |-> "",
     gets |-> 0, sets |-> 0, geos |-> 0, sends |-> << >>, cacheErr |-> "",
     hit |-> None, prior |-> None, fwd |-> None, sec |-> None,
     geoArg |-> None, geo |-> None, loc |-> None, rewritten |-> None,
     stored |-> None, result |-> NoResult]

NoRequest == NewRec("", Question(<< >>, 0))

\* The questions clients ask.
Questions ==
    {Question(n, 15) : n \in QNames} \cup {Question(n, 1) : n \in {NameMEx, NameACn}}


(***************************************************************************)
(* GeoInterceptResolver: the operations                                    *)
(***************************************************************************)
\* resolve: only MX requests whose name matches no skip glob are intercepted.
SkippedNames == {n \in QNames : Skipped(n)}

\* Mutant: the skip list is not consulted.
InterceptsEveryMx(q) == QTYPE(q.qtype) = <<"M", "X">>

Intercepts(q) == QTYPE(q.qtype) = <<"M", "X">> /\ q.qname \notin SkippedNames

\* Mutant: every forward goes over UDP.
ForwardTcpNever(protocol) == FALSE

\* The transport _resolve_other sends over: tcp=False for a UDP handler.
ForwardTcp(protocol) == protocol # "udp"

\* _resolve_other: one send of the request to the upstream server.
ResolveOther(rec, fo) ==
    LET tcp == ForwardTcp(rec.protocol)
        got == Send(rec.q, fo, Some(DEFAULT_TIMEOUT))
    IN  [rec EXCEPT !.sends = Append(@, [q |-> rec.q, tcp |-> tcp,
                                         timeout |-> Some(DEFAULT_TIMEOUT)]),
                    !.fwd = got.reply,
                    !.result = IF got.kind = "reply" THEN Returned(got.reply[1])
                               ELSE Raised(got.error)]

\* _resolve_record(domain, 'A'): a UDP send with no timeout.
ResolveRecord(rec, domain, so) ==
    LET q2 == Question(domain, 1)
        got == Send(q2, so, None)
    IN  [rec EXCEPT !.sends = Append(@, [q |-> q2, tcp |-> FALSE, timeout |-> None]),
                    !.sec = got.reply,
                    !.result = IF got.kind = "reply" THEN NoResult
                               ELSE IF got.kind = "block" THEN Blocked
                               ELSE Raised(got.error)]

\* _answer_from_cache, given what cache.get returned.
AnswerFromCache(val) == IF val # None THEN Some(Unpickle(val[1].val)) ELSE None

\* _answer_to_cache: cache.set(key, pickle.dumps(rr), rr.ttl).
CacheSetArgs(qname, rr) ==
    [key |-> CacheKey(<< >>, qname), val |-> Pickle(rr), ex |-> rr.ttl]

\* redis SET key val [EX ex]: ex = 0 sets no expiry.
RedisSet(c, args) == [c EXCEPT ![args.key] = Some([val |-> args.val, left |-> args.ex])]

\* Mutant: the upstream record is kept as it came.
RewrittenUpstream(qname, a, pref, gw) == a

\* The record the rewritten reply carries.
Rewritten(qname, a, pref, gw) == FromZone(FormatZone(qname, a, pref, gw))

\* _resolve_mx, lines 89-102: locate the host, pick the gateway, rewrite, cache.
MxRewrite(rec, a, pref, host, db, setOk, c) ==
    LET geo == GeoGet(host, db)
        loc == LocationFromClient(geo)
        gw == Gateway(loc)
        reply == AddAnswer(EmptyReply(rec.q), Rewritten(rec.q.qname, a, pref, gw))
        args == CacheSetArgs(rec.q.qname, reply.rr[1])
        r1 == [rec EXCEPT !.geos = @ + 1, !.geoArg = Some(host), !.geo = Some(geo),
                          !.loc = Some(loc), !.rewritten = Some(reply.rr[1]),
                          !.sets = @ + 1]
    IN  IF setOk
        THEN [rec |-> [r1 EXCEPT !.stored = Some(args), !.result = Returned(reply)],
              cache |-> RedisSet(c, args)]
        ELSE [rec |-> [r1 EXCEPT !.cacheErr = "set",
                                 !.result = Raised("redis.RedisError")],
              cache |-> c]

\* reply.get_a() raises on a reply with no records in the builds where it is
\* self.rr[0]; the others return RR().
GetARaises(reply, build) == reply.rr = << >> /\ build = "IndexError"

GetA(reply) == IF reply.rr = << >> THEN DefaultRR ELSE reply.rr[1]

\* Mutant: the status of the secondary reply is not looked at.
SecondaryUsableAlways(reply2) == TRUE

\* Whether the reply of the secondary query lets the rewrite go on.
SecondaryUsable(reply2) == IsNoerror(reply2)

\* _resolve_mx, lines 81-88, after a NOERROR forward reply.
MxResolveHost(rec, reply, build, so, db, setOk, c) ==
    IF GetARaises(reply, build)
    THEN [rec |-> [rec EXCEPT !.result = Raised("IndexError")], cache |-> c]
    ELSE
    LET a == GetA(reply)
        pr == ParseRdata(a.rdata)
    IN  IF IsIpaddress(pr.host)
        THEN MxRewrite(rec, a, pr.pref, pr.host, db, setOk, c)
        ELSE LET r2 == ResolveRecord(rec, pr.host, so)
             IN  IF r2.result.kind # "none"
                 THEN [rec |-> r2, cache |-> c]
                 ELSE IF ~SecondaryUsable(r2.sec[1])
                 THEN [rec |-> [r2 EXCEPT !.result = Returned(reply)], cache |-> c]
                 ELSE IF GetARaises(r2.sec[1], build)
                 THEN [rec |-> [r2 EXCEPT !.result = Raised("IndexError")], cache |-> c]
                 ELSE MxRewrite(r2, a, pr.pref, ParseRdata(GetA(r2.sec[1]).rdata).host,
                                db, setOk, c)

\* Mutant: only SERVFAIL ends the pipeline.
ForwardFinalOnServfail(reply) == RCODE(reply.rcode) = "SERVFAIL"

\* Whether the forwarded reply is returned as it is.
ForwardFinal(reply) == ~IsNoerror(reply)

\* _resolve_mx, lines 76-102: after a cache miss.
MxMiss(rec, build, fo, so, db, setOk, c) ==
    LET r1 == ResolveOther(rec, fo)
    IN  IF r1.result.kind # "reply" \/ ForwardFinal(r1.fwd[1])
        THEN [rec |-> r1, cache |-> c]
        ELSE MxResolveHost([r1 EXCEPT !.result = NoResult], r1.fwd[1], build, so, db,
                           setOk, c)

\* Whether the first answer of a reply names its mail host, not an address.
HostnameExchange(reply) ==
    /\ IsNoerror(reply) /\ reply.rr # << >>
    /\ ~IsDottedQuad(Split(reply.rr[1].rdata, " ")[Len(Split(reply.rr[1].rdata, " "))])

Forwards(rec) == Cardinality({i \in 1..Len(rec.sends) : rec.sends[i].q = rec.q})

Secondaries(rec) == Cardinality({i \in 1..Len(rec.sends) : rec.sends[i].q # rec.q})

\* What a request served from the cache keeps of the request before it, when
\* that one asked the same question.
Summary(rec, q) ==
    IF rec.q # q THEN None
    ELSE Some([missed |-> rec.gets = 1 /\ rec.cacheErr = "" /\ rec.hit = None,
               hostname |-> rec.fwd # None /\ HostnameExchange(rec.fwd[1]),
               forwards |-> Forwards(rec), secondaries |-> Secondaries(rec),
               wrote |-> IF rec.stored # None THEN rec.rewritten ELSE None])

\* Mutant: the request is forwarded before the cached record is returned.
ServeFromCacheForwarding(rec, rr, prior) ==
    [rec EXCEPT !.hit = rr, !.prior = prior,
                !.sends = Append(@, [q |-> rec.q, tcp |-> ForwardTcp(rec.protocol),
                                     timeout |-> Some(DEFAULT_TIMEOUT)]),
                !.result = Returned(AddAnswer(EmptyReply(rec.q), rr[1]))]

\* _resolve_mx, lines 71-74: a copy of the cached record is the only answer.
ServeFromCache(rec, rr, prior) ==
    [rec EXCEPT !.hit = rr, !.prior = prior,
                !.result = Returned(AddAnswer(EmptyReply(rec.q), rr[1]))]

\* Requests are taken one at a time: none starts while another is in flight.
Quiet == \A g \in Handlers : pc[g] # "upstream"

Finish(rec) == last' = rec

\* The answers change from call to call: none is held fixed.
NoEnv == [fo |-> None, so |-> None, db |-> ""]

\* The interceptor after __init__: nothing cached, no request yet.
InterceptInit ==
    /\ pc = [h \in Handlers |-> "idle"]
    /\ inflight = [h \in Handlers |-> NoRequest]
    /\ cache = [k \in Keys |-> None]
    /\ last = NoRequest
    /\ getAEmpty \in {"IndexError", "RR"}
    /\ env = NoEnv

\* resolve -> _resolve_other: a request that is not intercepted.
PassThrough(h) ==
    /\ pc[h] = "idle" /\ Quiet
    /\ \E q \in Questions :
          /\ ~Intercepts(q)
          /\ \E fo \in PassShapes(q) :
                Finish(ResolveOther([NewRec(h, q) EXCEPT !.route = "other"], fo))
    /\ UNCHANGED <<pc, inflight, cache, getAEmpty, env, zvars>>

\* resolve -> _resolve_mx, lines 66-74: the cache lookup.
MxLookup(h) ==
    /\ pc[h] = "idle" /\ Quiet
    /\ \E q \in Questions, getOk \in BOOLEAN :
          LET rec == [NewRec(h, q) EXCEPT !.route = "mx", !.gets = 1]
              rr == AnswerFromCache(cache[CacheKey(<< >>, q.qname)])
          IN  /\ Intercepts(q)
              /\ IF ~getOk
                 THEN /\ Finish([rec EXCEPT !.cacheErr = "get",
                                   !.result = Raised("redis.RedisError")])
                      /\ UNCHANGED <<pc, inflight>>
                 ELSE IF rr # None
                 THEN /\ Finish(ServeFromCache(rec, rr, Summary(last, q)))
                      /\ UNCHANGED <<pc, inflight>>
                 ELSE /\ inflight' = [inflight EXCEPT ![h] = rec]
                      /\ pc' = [pc EXCEPT ![h] = "upstream"]
                      /\ last' = NoRequest
    /\ UNCHANGED <<cache, getAEmpty, env, zvars>>

\* _resolve_mx, lines 76-102: forward, resolve the host, rewrite and cache,
\* for the upstream answers fos and sos, the database answers dbs and the
\* outcomes oks of cache.set.
Upstream(h, fos, sos, dbs, oks) ==
    /\ pc[h] = "upstream"
    /\ \E fo \in fos, so \in sos, db \in dbs, setOk \in oks :
          LET out == MxMiss(inflight[h], getAEmpty, fo, so, db, setOk, cache)
          IN  /\ cache' = out.cache
              /\ pc' = [pc EXCEPT ![h] = IF out.rec.result.kind = "block"
                                             THEN "blocked" ELSE "idle"]
              /\ inflight' = [inflight EXCEPT ![h] = NoRequest]
              /\ Finish(out.rec)
    /\ UNCHANGED <<getAEmpty, env, zvars>>

MxUpstream(h) == Upstream(h, ForwardShapes, SecondaryShapes, GeoAnswers, BOOLEAN)

\* The same step against an upstream server that answers with a hostname
\* exchange or not at all, and a working database and cache.
LiveUpstream(h) ==
    Upstream(h, {Shape("silent", 0), Shape("host", MaxTtl)},
             {Shape("silent", 1), Shape("a", 1)}, {"CN", "US"}, {TRUE})

\* A second passes: redis counts every expiry down and evicts at zero.
Tick ==
    /\ \E k \in Keys : cache[k] # None /\ cache[k][1].left > 0
    /\ cache' = [k \in Keys |->
                    IF cache[k] = None \/ cache[k][1].left = 0 THEN cache[k]
                    ELSE IF cache[k][1].left = 1 THEN None
                    ELSE Some([cache[k][1] EXCEPT !.left = @ - 1])]
    /\ UNCHANGED <<pc, inflight, last, getAEmpty, env, zvars>>

(***************************************************************************)
(* GeoZoneResolver                                                         *)
(***************************************************************************)
ZDEFAULT_LOCATION == <<"D", "E", "F", "A", "U", "L", "T">>

\* The zone files a directory may hold.
FileNames ==
    { <<"z">>, <<"z", "-", "c", "n">>, <<"z", "-", "u", "s">>,
      <<"y", "-", "C", "N">>, <<"a", "-", "z", "-", "c", "n">> }

MaxFiles == 2

\* listdir: the files of the directory, in any order.
Listings ==
    UNION {{l \in [1..n -> FileNames] : \A i, j \in 1..n : i # j => l[i] # l[j]} :
           n \in 0..MaxFiles}

\* _location_from_suffix
LocationFromSuffix(filename) ==
    LET tokens == Split(filename, "-")
    IN  IF Len(tokens) = 2 THEN StrUpper(tokens[Len(tokens)]) ELSE ZDEFAULT_LOCATION

\* __init__, lines 31-37: a later file replaces the table of its location.
ZonesOf(listing) ==
    [loc \in {LocationFromSuffix(listing[i]) : i \in 1..Len(listing)} |->
        listing[CHOOSE i \in 1..Len(listing) :
                    /\ LocationFromSuffix(listing[i]) = loc
                    /\ \A j \in (i + 1)..Len(listing) :
                          LocationFromSuffix(listing[j]) # loc]]

\* _location_from_client of the zone resolver.
ZLocationFromClient(geo) ==
    IF geo.kind = "found" THEN geo.code ELSE ZDEFAULT_LOCATION

\* _zoneresolver_from_location: the table, or KeyError.
ZoneresolverFromLocation(z, location) ==
    IF location \in DOMAIN z THEN Some(z[location])
    ELSE IF ZDEFAULT_LOCATION \in DOMAIN z THEN Some(z[ZDEFAULT_LOCATION])
    ELSE None

NoZRequest == [ip |-> << >>, geo |-> [kind |-> "raise"], location |-> << >>,
               table |-> None, result |-> "none"]

\* GeoZoneResolver.resolve for a client at ip, the database answering db.
ZResolve(z, ip, db) ==
    LET geo == GeoGet(ip, db)
        location == ZLocationFromClient(geo)
        table == ZoneresolverFromLocation(z, location)
    IN  [ip |-> ip, geo |-> geo, location |-> location, table |-> table,
         result |-> IF table = None THEN "KeyError" ELSE "reply"]

ClientIps == {Ip1234, Ip9999, <<":", ":", "1">>}

\* No zone resolver runs beside the interceptor.
ZoneIdle == zonedir = << >> /\ zones = << >> /\ zlast = NoZRequest

ZoneInit ==
    /\ zonedir \in Listings
    /\ zones = ZonesOf(zonedir)
    /\ zlast = NoZRequest

ZoneResolve ==
    /\ \E ip \in ClientIps, db \in GeoAnswers : zlast' = ZResolve(zones, ip, db)
    /\ UNCHANGED <<zonedir, zones, ivars>>

(***************************************************************************)
(* GeoInterceptResolver: concurrent workers                                *)
(***************************************************************************)
\* The upstream and database answers that stay the same over a run.
Envs == [fo : ForwardShapes, so : SecondaryShapes, db : GeoAnswers]

\* The two servers share one resolver and one cache; the cache works.
ConcInit ==
    /\ pc = [h \in Handlers |-> "idle"]
    /\ inflight = [h \in Handlers |-> NoRequest]
    /\ cache = [k \in Keys |-> None]
    /\ last = NoRequest
    /\ getAEmpty \in {"IndexError", "RR"}
    /\ env \in Envs
    /\ ZoneIdle

\* _resolve_mx, lines 66-74, in the thread of h: the cache lookup.  The record
\* of the request stays in inflight[h] once the request has finished.
ConcLookup(h) ==
    /\ pc[h] = "idle"
    /\ \E q \in Questions :
          LET rec == [NewRec(h, q) EXCEPT !.route = "mx", !.gets = 1]
              rr == AnswerFromCache(cache[CacheKey(<< >>, q.qname)])
          IN  /\ Intercepts(q)
              /\ IF rr # None
                 THEN /\ inflight' = [inflight EXCEPT ![h] = ServeFromCache(rec, rr, None)]
                      /\ pc' = pc
                 ELSE /\ inflight' = [inflight EXCEPT ![h] = rec]
                      /\ pc' = [pc EXCEPT ![h] = "upstream"]
    /\ UNCHANGED <<cache, last, getAEmpty, env, zvars>>

\* _resolve_mx, lines 76-102, in the thread of h, whatever the other thread
\* has done to the cache since the lookup.
ConcUpstream(h) ==
    /\ pc[h] = "upstream"
    /\ LET out == MxMiss(inflight[h], getAEmpty, env.fo, env.so, env.db, TRUE, cache)
       IN  /\ cache' = out.cache
           /\ inflight' = [inflight EXCEPT ![h] = out.rec]
           /\ pc' = [pc EXCEPT ![h] = IF out.rec.result.kind = "block"
                                          THEN "blocked" ELSE "idle"]
    /\ UNCHANGED <<last, getAEmpty, env, zvars>>

(***************************************************************************)
(* Specifications                                                          *)
(***************************************************************************)
Init == InterceptInit /\ ZoneIdle

Next ==
    \/ \E h \in Handlers : PassThrough(h)
    \/ \E h \in Handlers : MxLookup(h)
    \/ \E h \in Handlers : MxUpstream(h)
    \/ Tick

\* The intercepting proxy.
Spec == Init /\ [][Next]_vars

LiveNext ==
    \/ \E h \in Handlers : PassThrough(h)
    \/ \E h \in Handlers : MxLookup(h)
    \/ \E h \in Handlers : LiveUpstream(h)
    \/ Tick

\* The intercepting proxy with its threads scheduled: a request that waits
\* for the upstream server goes on as soon as the call returns.
SpecLive == Init /\ [][LiveNext]_vars /\ \A h \in Handlers : WF_vars(LiveUpstream(h))

ConcNext ==
    \/ \E h \in Handlers : ConcLookup(h)
    \/ \E h \in Handlers : ConcUpstream(h)

\* The intercepting proxy with its two servers interleaved.
SpecConc == ConcInit /\ [][ConcNext]_vars

ZInit == InterceptInit /\ getAEmpty = "RR" /\ ZoneInit

ZNext == ZoneResolve

\* The zone resolver.
SpecZone == ZInit /\ [][ZNext]_vars

(***************************************************************************)
(* Properties of the intercepting proxy                                    *)
(***************************************************************************)
Finished == last.result.kind # "none"

IsMx(q) == QTYPE(q.qtype) = <<"M", "X">>

\* The exchange of a record: the last token of its rdata.
ExchangeOf(rr) == LET t == Split(rr.rdata, " ") IN t[Len(t)]

FoundCode(rec, code) == rec.geo[1].kind = "found" /\ rec.geo[1].code = code

C2_Case ==
    /\ last.route = "mx" /\ last.hit # None /\ last.prior # None
    /\ last.prior[1].missed /\ last.prior[1].hostname

\* C2: the two requests together make one forward of the MX query and one
\* secondary A query; the second makes no upstream call and no geo lookup.
C2_OneRoundTripForTwo ==
    C2_Case =>
        /\ last.prior[1].forwards + Forwards(last) = 1
        /\ last.prior[1].secondaries + Secondaries(last) = 1
        /\ last.sends = << >> /\ last.geos = 0
        /\ last.result.kind = "reply"

C2_Witness == C2_Case /\ last.prior[1].secondaries = 1 /\ last.sends = << >>

\* The case of C3: the exchange is a hostname and the secondary reply is an
\* error status.
C3_Case ==
    /\ last.route = "mx" /\ last.fwd # None /\ HostnameExchange(last.fwd[1])
    /\ last.sec # None /\ RCODE(last.sec[1].rcode) # "NOERROR"

\* C3: then resolve returns the forwarded reply as it came and makes no cache
\* write.
C3_FailOpen ==
    C3_Case =>
        /\ last.result = Returned(last.fwd[1])
        /\ last.sets = 0 /\ last.stored = None /\ last.rewritten = None

C3_Witness == C3_Case /\ last.result = Returned(last.fwd[1]) /\ last.fwd[1].rr # << >>

\* C4: when the secondary A query times out or fails in transport, resolve
\* still returns the forwarded reply and no failure reaches the caller.
C4_SecondaryFailureFailsOpen ==
    (/\ last.route = "mx" /\ last.fwd # None
     /\ Secondaries(last) = 1 /\ last.sec = None)
        => last.result = Returned(last.fwd[1])

\* C5: a failing cache get is a cache miss (the request is forwarded), and a
\* failing cache set still returns the rewritten reply.
C5_CacheFailuresHidden ==
    /\ last.cacheErr = "get" => Forwards(last) = 1 /\ last.result.kind # "raise"
    /\ last.cacheErr = "set" =>
          /\ last.result.kind = "reply"
          /\ last.result.reply[1].rr = << last.rewritten[1] >>

\* The case of C6: an MX request whose name matches a skip glob.
C6_Case ==
    /\ Finished /\ IsMx(last.q)
    /\ \E i \in 1..Len(Skip) : MatchGlob(last.q.qname, Skip[i])

\* C6: it never enters the MX pipeline: no cache get, no cache set, no geo
\* lookup, and the reply is the upstream reply.
C6_SkipListExempt ==
    C6_Case =>
        /\ last.route = "other"
        /\ last.gets = 0 /\ last.sets = 0 /\ last.geos = 0
        /\ Len(last.sends) = 1 /\ last.sends[1].q = last.q
        /\ last.fwd # None => last.result = Returned(last.fwd[1])

C6_Witness == C6_Case /\ last.result.kind = "reply" /\ last.gets = 0

\* C7: a request that is not MX is answered by the parsed reply of one
\* upstream call over the client's transport, with no cache access and no geo
\* lookup, whatever the cache holds.
C7_PassThroughIdentity ==
    (Finished /\ ~IsMx(last.q)) =>
        /\ Len(last.sends) = 1 /\ last.sends[1].q = last.q
        /\ last.sends[1].tcp = (last.protocol = "tcp")
        /\ last.gets = 0 /\ last.sets = 0 /\ last.geos = 0
        /\ IF last.fwd # None THEN last.result = Returned(last.fwd[1])
           ELSE last.result.kind = "raise"

C7_Witness ==
    /\ Finished /\ ~IsMx(last.q) /\ last.protocol = "tcp"
    /\ last.result.kind = "reply" /\ last.sends[1].tcp
    /\ cache[CacheKey(<< >>, last.q.qname)] # None

\* The case of C8: the rewritten reply was returned, for an upstream answer
\* whose first record is an MX record.
C8_Case ==
    /\ last.rewritten # None /\ last.result.kind = "reply"
    /\ last.fwd[1].rr # << >> /\ IsMx([qtype |-> last.fwd[1].rr[1].rtype])

\* C8: the reply holds one answer: the query name, the ttl, class and type of
\* the first upstream record, its preference, and the selected gateway.
C8_RewriteContent ==
    C8_Case =>
        LET a == last.fwd[1].rr[1]
            rr == last.result.reply[1].rr
        IN  /\ Len(rr) = 1
            /\ rr[1].rname = last.q.qname
            /\ rr[1].ttl = a.ttl /\ rr[1].rclass = a.rclass /\ rr[1].rtype = a.rtype
            /\ rr[1].rdata = MxRdata(Split(a.rdata, " ")[1], Gateway(last.loc[1]))

C8_Witness ==
    /\ C8_Case /\ Len(last.fwd[1].rr) = 2 /\ Len(last.result.reply[1].rr) = 1
    /\ last.fwd[1].rr[1].rname # last.q.qname
    /\ FoundCode(last, CN)

\* The case of C9: the forwarded MX request came back with an error status.
C9_Case ==
    /\ last.route = "mx" /\ last.fwd # None
    /\ RCODE(last.fwd[1].rcode) # "NOERROR"

\* C9: that reply is returned as it came; no secondary query, no geo lookup,
\* no cache write.
C9_UpstreamErrorVerbatim ==
    C9_Case =>
        /\ last.result = Returned(last.fwd[1])
        /\ Len(last.sends) = 1 /\ last.geos = 0
        /\ last.sets = 0 /\ last.stored = None

C9_Witness ==
    C9_Case /\ RCODE(last.fwd[1].rcode) = "NXDOMAIN" /\ last.result.kind = "reply"

\* The record a cache entry holds.
EntryRecord(k) == Unpickle(cache[k][1].val)

\* C13: two requests for the same name, compared without regard to case, use
\* the same cache key, so the cache never holds two entries for one name; and
\* a request writes under the key it read.
C13_OneKeyPerName ==
    /\ \A k1, k2 \in Keys :
          (/\ cache[k1] # None /\ cache[k2] # None
           /\ StrLower(EntryRecord(k1).rname) = StrLower(EntryRecord(k2).rname))
              => k1 = k2
    /\ last.stored # None => last.stored[1].key = CacheKey(<< >>, last.q.qname)

\* The case of C14: a request served from the cache, right after the request
\* for the same name that stored its rewritten answer.
C14_Case ==
    /\ last.route = "mx" /\ last.hit # None
    /\ last.prior # None /\ last.prior[1].wrote # None

\* C14: the reply holds one answer, with the name, class, type, rdata
\* (preference and gateway) and ttl of the record that was stored; the ttl is
\* not counted down and is not negative.
C14_CacheRoundTrip ==
    C14_Case =>
        LET w == last.prior[1].wrote[1]
            rr == last.result.reply[1].rr
        IN  /\ Len(rr) = 1
            /\ rr[1].rname = w.rname /\ rr[1].rclass = w.rclass
            /\ rr[1].rtype = w.rtype /\ rr[1].rdata = w.rdata
            /\ rr[1].ttl = w.ttl /\ rr[1].ttl >= 0

C14_Witness ==
    /\ C14_Case /\ last.result.kind = "reply"
    /\ last.result.reply[1].rr[1].ttl = MaxTtl
    /\ IsMx([qtype |-> last.result.reply[1].rr[1].rtype])

\* C15: every request that went upstream finishes, also when the upstream
\* server never answers: its worker becomes idle again.
C15_EveryRequestTerminates ==
    \A h \in Handlers : (pc[h] = "upstream") ~> (pc[h] = "idle")

C18_GeoArgumentIsAddress ==
    (last.route = "mx" /\ last.geoArg # None) => IsDottedQuad(last.geoArg[1])

\* The case of C19: a cache miss whose forwarded reply is NOERROR, every
\* upstream call answered and the cache working.
C19_Case ==
    /\ last.route = "mx" /\ last.hit = None /\ last.cacheErr = ""
    /\ last.fwd # None /\ RCODE(last.fwd[1].rcode) = "NOERROR"
    /\ Secondaries(last) = 1 => last.sec # None

C20_CacheContent ==
    /\ \A n \in QNames :
          LET k == CacheKey(<< >>, n)
          IN  cache[k] # None =>
                  /\ EntryRecord(k).rname = n
                  /\ ExchangeOf(EntryRecord(k)) \in
                         {DEFAULT_OVERSEA_OUTBOUND_GATEWAY, CN_OVERSEA_OUTBOUND_GATEWAY}
    /\ last.sets > 0 => last.route = "mx" /\ last.rewritten # None
    /\ last.stored # None =>
          /\ last.stored[1].val = Pickle(last.rewritten[1])
          /\ last.result.kind = "reply"
          /\ last.result.reply[1].rr = << last.rewritten[1] >>

\* A request failed open while the cache holds the entry of another request.
C20_Witness ==
    /\ cache[CacheKey(<< >>, NameMEx)] # None
    /\ last.route = "mx" /\ last.q.qname = NameMExUpper
    /\ last.sec # None /\ RCODE(last.sec[1].rcode) # "NOERROR"
    /\ last.result.kind = "reply" /\ last.sets = 0
    /\ cache[CacheKey(<< >>, NameMExUpper)] = None

(***************************************************************************)
(* Properties of the concurrent workers                                    *)
(***************************************************************************)
\* The request of worker h has finished.
Done(h) == pc[h] = "idle" /\ inflight[h].result.kind # "none"

\* C17: against answers that do not change, two finished requests for the
\* same name have the same result and wrote the same cache entry, whatever
\* the interleaving; the entry in the cache is the one written; and the entry
\* under the key of a name holds a record of that name.
C17_InterleavingHarmless ==
    /\ \A g, h \in Handlers :
          (Done(g) /\ Done(h) /\ inflight[g].q = inflight[h].q) =>
              /\ inflight[g].result = inflight[h].result
              /\ (inflight[g].stored # None /\ inflight[h].stored # None)
                     => inflight[g].stored = inflight[h].stored
    /\ \A h \in Handlers :
          (Done(h) /\ inflight[h].stored # None) =>
              LET args == inflight[h].stored[1]
              IN  /\ cache[args.key] = Some([val |-> args.val, left |-> args.ex])
                  /\ inflight[h].result.kind = "reply"
                  /\ inflight[h].result.reply[1].rr = << Unpickle(args.val) >>
    /\ \A n \in QNames :
          cache[CacheKey(<< >>, n)] # None => EntryRecord(CacheKey(<< >>, n)).rname = n

\* Both workers missed the cache for the same name, and both wrote; the cache
\* also holds an entry for another name.
C17_Witness ==
    /\ Done("udp") /\ Done("tcp") /\ inflight["udp"].q = inflight["tcp"].q
    /\ inflight["udp"].stored # None /\ inflight["tcp"].stored # None
    /\ inflight["udp"].result = inflight["tcp"].result
    /\ \E k \in Keys : k # inflight["udp"].stored[1].key /\ cache[k] # None

(***************************************************************************)
(* Properties of the zone resolver                                         *)
(***************************************************************************)
\* C10: a client whose code has a zone table is answered by that table; any
\* other client (no table for the code, or a failed lookup) is answered by the
\* table of the default location.
C10_ZoneSelection ==
    zlast.result # "none" =>
        /\ zlast.result = "reply"
        /\ IF zlast.geo.kind = "found" /\ zlast.geo.code \in DOMAIN zones
           THEN zlast.table = Some(zones[zlast.geo.code])
           ELSE /\ ZDEFAULT_LOCATION \in DOMAIN zones
                /\ zlast.table = Some(zones[ZDEFAULT_LOCATION])

\* C11: a constructed zone resolver has a table for the default location, so
\* that no request ends in a failed table selection.
C11_DefaultZoneExists ==
    /\ ZDEFAULT_LOCATION \in DOMAIN zones
    /\ zlast.result # "KeyError"

\* The text after the last '-' of a file name, in upper case; the default
\* location for a name with no '-'.
SuffixAfterLastDash(filename) ==
    LET dashes == {i \in 1..Len(filename) : filename[i] = "-"}
    IN  IF dashes = {} THEN ZDEFAULT_LOCATION
        ELSE LET d == CHOOSE i \in dashes : \A j \in dashes : j <= i
             IN  StrUpper(SubSeq(filename, d + 1, Len(filename)))

\* C12: every table is registered under the upper-cased text after the last
\* '-' of its file name, or under the default location when the name has no
\* '-'; every file of the directory has its location in the table.
C12_LocationAfterLastDash ==
    /\ \A loc \in DOMAIN zones : SuffixAfterLastDash(zones[loc]) = loc
    /\ \A i \in 1..Len(zonedir) : SuffixAfterLastDash(zonedir[i]) \in DOMAIN zones

=============================================================================
